---- MODULE Spec2Model ----
(***************************************************************************)
(* Model of PhoneBook_Python_FastAPI/app.py: the two regular-expression    *)
(* validators and the four request handlers (list, add, deleteByName,      *)
(* deleteByNumber) over the phonebook table and the audit_log table.       *)
(*                                                                         *)
(* A Python str is a sequence of one-character strings: "Al" is            *)
(* <<"A", "l">>.  The regular expressions are kept as syntax trees and     *)
(* matched the way re.match decides them: Ends(re, s, i) is the set of     *)
(* positions at which a match of re that starts at position i of s can     *)
(* end.  bool(re.match(..)) only asks whether some match exists, so the    *)
(* set of ends decides it exactly as backtracking does.                    *)
(***************************************************************************)
EXTENDS Integers, Sequences, FiniteSets, TLC

----------------------------------------------------------------------------
(* Character classes of Python's re for str patterns (no re.ASCII flag).   *)
(* A printable ASCII character is written as itself, tab, newline,         *)
(* carriage return and form feed by their escapes, and any other           *)
(* character by its code point: "U+000B" is the vertical tab, "U+00A0" the *)
(* no-break space, "U+0661" the Arabic-Indic digit one.                    *)

Lower == {"a","b","c","d","e","f","g","h","i","j","k","l","m",
          "n","o","p","q","r","s","t","u","v","w","x","y","z"}

Upper == {"A","B","C","D","E","F","G","H","I","J","K","L","M",
          "N","O","P","Q","R","S","T","U","V","W","X","Y","Z"}

Letter == Lower \cup Upper

(* \d of a str pattern: every Unicode decimal digit (category Nd).          *)
Digit == {"0","1","2","3","4","5","6",
          "7","8","9","U+0660","U+0661","U+0662","U+0663",
          "U+0664","U+0665","U+0666","U+0667","U+0668","U+0669","U+06F0",
          "U+06F1","U+06F2","U+06F3","U+06F4","U+06F5","U+06F6","U+06F7",
          "U+06F8","U+06F9","U+07C0","U+07C1","U+07C2","U+07C3","U+07C4",
          "U+07C5","U+07C6","U+07C7","U+07C8","U+07C9","U+0966","U+0967",
          "U+0968","U+0969","U+096A","U+096B","U+096C","U+096D","U+096E",
          "U+096F","U+09E6","U+09E7","U+09E8","U+09E9","U+09EA","U+09EB",
          "U+09EC","U+09ED","U+09EE","U+09EF","U+0A66","U+0A67","U+0A68",
          "U+0A69","U+0A6A","U+0A6B","U+0A6C","U+0A6D","U+0A6E","U+0A6F",
          "U+0AE6","U+0AE7","U+0AE8","U+0AE9","U+0AEA","U+0AEB","U+0AEC",
          "U+0AED","U+0AEE","U+0AEF","U+0B66","U+0B67","U+0B68","U+0B69",
          "U+0B6A","U+0B6B","U+0B6C","U+0B6D","U+0B6E","U+0B6F","U+0BE6",
          "U+0BE7","U+0BE8","U+0BE9","U+0BEA","U+0BEB","U+0BEC","U+0BED",
          "U+0BEE","U+0BEF","U+0C66","U+0C67","U+0C68","U+0C69","U+0C6A",
          "U+0C6B","U+0C6C","U+0C6D","U+0C6E","U+0C6F","U+0CE6","U+0CE7",
          "U+0CE8","U+0CE9","U+0CEA","U+0CEB","U+0CEC","U+0CED","U+0CEE",
          "U+0CEF","U+0D66","U+0D67","U+0D68","U+0D69","U+0D6A","U+0D6B",
          "U+0D6C","U+0D6D","U+0D6E","U+0D6F","U+0DE6","U+0DE7","U+0DE8",
          "U+0DE9","U+0DEA","U+0DEB","U+0DEC","U+0DED","U+0DEE","U+0DEF",
          "U+0E50","U+0E51","U+0E52","U+0E53","U+0E54","U+0E55","U+0E56",
          "U+0E57","U+0E58","U+0E59","U+0ED0","U+0ED1","U+0ED2","U+0ED3",
          "U+0ED4","U+0ED5","U+0ED6","U+0ED7","U+0ED8","U+0ED9","U+0F20",
          "U+0F21","U+0F22","U+0F23","U+0F24","U+0F25","U+0F26","U+0F27",
          "U+0F28","U+0F29","U+1040","U+1041","U+1042","U+1043","U+1044",
          "U+1045","U+1046","U+1047","U+1048","U+1049","U+1090","U+1091",
          "U+1092","U+1093","U+1094","U+1095","U+1096","U+1097","U+1098",
          "U+1099","U+17E0","U+17E1","U+17E2","U+17E3","U+17E4","U+17E5",
          "U+17E6","U+17E7","U+17E8","U+17E9","U+1810","U+1811","U+1812",
          "U+1813","U+1814","U+1815","U+1816","U+1817","U+1818","U+1819",
          "U+1946","U+1947","U+1948","U+1949","U+194A","U+194B","U+194C",
          "U+194D","U+194E","U+194F","U+19D0","U+19D1","U+19D2","U+19D3",
          "U+19D4","U+19D5","U+19D6","U+19D7","U+19D8","U+19D9","U+1A80",
          "U+1A81","U+1A82","U+1A83","U+1A84","U+1A85","U+1A86","U+1A87",
          "U+1A88","U+1A89","U+1A90","U+1A91","U+1A92","U+1A93","U+1A94",
          "U+1A95","U+1A96","U+1A97","U+1A98","U+1A99","U+1B50","U+1B51",
          "U+1B52","U+1B53","U+1B54","U+1B55","U+1B56","U+1B57","U+1B58",
          "U+1B59","U+1BB0","U+1BB1","U+1BB2","U+1BB3","U+1BB4","U+1BB5",
          "U+1BB6","U+1BB7","U+1BB8","U+1BB9","U+1C40","U+1C41","U+1C42",
          "U+1C43","U+1C44","U+1C45","U+1C46","U+1C47","U+1C48","U+1C49",
          "U+1C50","U+1C51","U+1C52","U+1C53","U+1C54","U+1C55","U+1C56",
          "U+1C57","U+1C58","U+1C59","U+A620","U+A621","U+A622","U+A623",
          "U+A624","U+A625","U+A626","U+A627","U+A628","U+A629","U+A8D0",
          "U+A8D1","U+A8D2","U+A8D3","U+A8D4","U+A8D5","U+A8D6","U+A8D7",
          "U+A8D8","U+A8D9","U+A900","U+A901","U+A902","U+A903","U+A904",
          "U+A905","U+A906","U+A907","U+A908","U+A909","U+A9D0","U+A9D1",
          "U+A9D2","U+A9D3","U+A9D4","U+A9D5","U+A9D6","U+A9D7","U+A9D8",
          "U+A9D9","U+A9F0","U+A9F1","U+A9F2","U+A9F3","U+A9F4","U+A9F5",
          "U+A9F6","U+A9F7","U+A9F8","U+A9F9","U+AA50","U+AA51","U+AA52",
          "U+AA53","U+AA54","U+AA55","U+AA56","U+AA57","U+AA58","U+AA59",
          "U+ABF0","U+ABF1","U+ABF2","U+ABF3","U+ABF4","U+ABF5","U+ABF6",
          "U+ABF7","U+ABF8","U+ABF9","U+FF10","U+FF11","U+FF12","U+FF13",
          "U+FF14","U+FF15","U+FF16","U+FF17","U+FF18","U+FF19","U+104A0",
          "U+104A1","U+104A2","U+104A3","U+104A4","U+104A5","U+104A6","U+104A7",
          "U+104A8","U+104A9","U+10D30","U+10D31","U+10D32","U+10D33","U+10D34",
          "U+10D35","U+10D36","U+10D37","U+10D38","U+10D39","U+11066","U+11067",
          "U+11068","U+11069","U+1106A","U+1106B","U+1106C","U+1106D","U+1106E",
          "U+1106F","U+110F0","U+110F1","U+110F2","U+110F3","U+110F4","U+110F5",
          "U+110F6","U+110F7","U+110F8","U+110F9","U+11136","U+11137","U+11138",
          "U+11139","U+1113A","U+1113B","U+1113C","U+1113D","U+1113E","U+1113F",
          "U+111D0","U+111D1","U+111D2","U+111D3","U+111D4","U+111D5","U+111D6",
          "U+111D7","U+111D8","U+111D9","U+112F0","U+112F1","U+112F2","U+112F3",
          "U+112F4","U+112F5","U+112F6","U+112F7","U+112F8","U+112F9","U+11450",
          "U+11451","U+11452","U+11453","U+11454","U+11455","U+11456","U+11457",
          "U+11458","U+11459","U+114D0","U+114D1","U+114D2","U+114D3","U+114D4",
          "U+114D5","U+114D6","U+114D7","U+114D8","U+114D9","U+11650","U+11651",
          "U+11652","U+11653","U+11654","U+11655","U+11656","U+11657","U+11658",
          "U+11659","U+116C0","U+116C1","U+116C2","U+116C3","U+116C4","U+116C5",
          "U+116C6","U+116C7","U+116C8","U+116C9","U+11730","U+11731","U+11732",
          "U+11733","U+11734","U+11735","U+11736","U+11737","U+11738","U+11739",
          "U+118E0","U+118E1","U+118E2","U+118E3","U+118E4","U+118E5","U+118E6",
          "U+118E7","U+118E8","U+118E9","U+11950","U+11951","U+11952","U+11953",
          "U+11954","U+11955","U+11956","U+11957","U+11958","U+11959","U+11C50",
          "U+11C51","U+11C52","U+11C53","U+11C54","U+11C55","U+11C56","U+11C57",
          "U+11C58","U+11C59","U+11D50","U+11D51","U+11D52","U+11D53","U+11D54",
          "U+11D55","U+11D56","U+11D57","U+11D58","U+11D59","U+11DA0","U+11DA1",
          "U+11DA2","U+11DA3","U+11DA4","U+11DA5","U+11DA6","U+11DA7","U+11DA8",
          "U+11DA9","U+16A60","U+16A61","U+16A62","U+16A63","U+16A64","U+16A65",
          "U+16A66","U+16A67","U+16A68","U+16A69","U+16AC0","U+16AC1","U+16AC2",
          "U+16AC3","U+16AC4","U+16AC5","U+16AC6","U+16AC7","U+16AC8","U+16AC9",
          "U+16B50","U+16B51","U+16B52","U+16B53","U+16B54","U+16B55","U+16B56",
          "U+16B57","U+16B58","U+16B59","U+1D7CE","U+1D7CF","U+1D7D0","U+1D7D1",
          "U+1D7D2","U+1D7D3","U+1D7D4","U+1D7D5","U+1D7D6","U+1D7D7","U+1D7D8",
          "U+1D7D9","U+1D7DA","U+1D7DB","U+1D7DC","U+1D7DD","U+1D7DE","U+1D7DF",
          "U+1D7E0","U+1D7E1","U+1D7E2","U+1D7E3","U+1D7E4","U+1D7E5","U+1D7E6",
          "U+1D7E7","U+1D7E8","U+1D7E9","U+1D7EA","U+1D7EB","U+1D7EC","U+1D7ED",
          "U+1D7EE","U+1D7EF","U+1D7F0","U+1D7F1","U+1D7F2","U+1D7F3","U+1D7F4",
          "U+1D7F5","U+1D7F6","U+1D7F7","U+1D7F8","U+1D7F9","U+1D7FA","U+1D7FB",
          "U+1D7FC","U+1D7FD","U+1D7FE","U+1D7FF","U+1E140","U+1E141","U+1E142",
          "U+1E143","U+1E144","U+1E145","U+1E146","U+1E147","U+1E148","U+1E149",
          "U+1E2F0","U+1E2F1","U+1E2F2","U+1E2F3","U+1E2F4","U+1E2F5","U+1E2F6",
          "U+1E2F7","U+1E2F8","U+1E2F9","U+1E950","U+1E951","U+1E952","U+1E953",
          "U+1E954","U+1E955","U+1E956","U+1E957","U+1E958","U+1E959","U+1FBF0",
          "U+1FBF1","U+1FBF2","U+1FBF3","U+1FBF4","U+1FBF5","U+1FBF6","U+1FBF7",
          "U+1FBF8","U+1FBF9"}

(* \s of a str pattern: every character for which str.isspace() holds.     *)
Space == {"\t","\n","U+000B","\f","\r","U+001C","U+001D",
          "U+001E","U+001F"," ","U+0085","U+00A0","U+1680","U+2000",
          "U+2001","U+2002","U+2003","U+2004","U+2005","U+2006","U+2007",
          "U+2008","U+2009","U+200A","U+2028","U+2029","U+202F","U+205F",
          "U+3000"}

Inf == -1

(* Constructors of the regular-expression syntax tree.                     *)
Cls(c) == [t |-> "cls", c |-> c]
Lit(ch) == Cls({ch})
Dot == [t |-> "any"]
Bol == [t |-> "bol"]
Eol == [t |-> "eol"]
Cat(a) == [t |-> "seq", a |-> a]
Alt(a) == [t |-> "alt", a |-> a]
Rep(r, lo, hi) == [t |-> "rep", r |-> r, lo |-> lo, hi |-> hi]
Opt(r) == Rep(r, 0, 1)
Plus(r) == Rep(r, 1, Inf)
Star(r) == Rep(r, 0, Inf)
Ahead(r) == [t |-> "la", r |-> r, pos |-> TRUE]
NotAhead(r) == [t |-> "la", r |-> r, pos |-> FALSE]

RECURSIVE Ends(_, _, _)
RECURSIVE SeqEnds(_, _, _, _)
RECURSIVE RepEnds(_, _, _, _, _)

(* Positions reachable from some position of P by one match of r.          *)
StepEnds(r, s, P) == UNION {Ends(r, s, p) : p \in P}

(* a[k], a[k+1], ... matched one after the other, starting anywhere in P.  *)
SeqEnds(a, k, s, P) ==
    IF k > Len(a) \/ P = {} THEN P
    ELSE SeqEnds(a, k + 1, s, StepEnds(a[k], s, P))

(* r{lo,hi} (hi = Inf for no upper limit), starting anywhere in P.         *)
RepEnds(r, lo, hi, s, P) ==
    IF P = {} THEN {}
    ELSE IF lo > 0
         THEN RepEnds(r, lo - 1, IF hi = Inf THEN Inf ELSE hi - 1, s,
                      StepEnds(r, s, P))
    ELSE IF hi = 0 THEN P
    ELSE P \cup RepEnds(r, 0, IF hi = Inf THEN Inf ELSE hi - 1, s,
                        StepEnds(r, s, P))

(* "$" without re.MULTILINE matches at the end of the string and just      *)
(* before a newline that is the last character; "." matches any character  *)
(* but a newline.                                                          *)
Ends(re, s, i) ==
    CASE re.t = "cls" -> IF i <= Len(s) /\ s[i] \in re.c THEN {i + 1} ELSE {}
      [] re.t = "any" -> IF i <= Len(s) /\ s[i] # "\n" THEN {i + 1} ELSE {}
      [] re.t = "bol" -> IF i = 1 THEN {i} ELSE {}
      [] re.t = "eol" -> IF i = Len(s) + 1 \/ (i = Len(s) /\ s[i] = "\n")
                         THEN {i} ELSE {}
      [] re.t = "seq" -> SeqEnds(re.a, 1, s, {i})
      [] re.t = "alt" -> UNION {Ends(re.a[k], s, i) : k \in DOMAIN re.a}
      [] re.t = "rep" -> RepEnds(re.r, re.lo, re.hi, s, {i})
      [] re.t = "la"  -> IF (Ends(re.r, s, i) # {}) = re.pos THEN {i} ELSE {}

(* bool(re.match(pattern, s)): some match starts at the first character.   *)
ReMatch(pattern, s) == Ends(pattern, s, 1) # {}

----------------------------------------------------------------------------
(* validate_phone_number                                                   *)

PhonePattern ==
    Cat(<< Bol,
           NotAhead(Rep(Cls(Digit), 6, Inf)),
           Opt(Lit("+")), Rep(Cls(Digit), 0, 3), Opt(Cls(Space)),
           Opt(Alt(<< Cat(<<Cls(Digit), Cls(Space)>>),
                      Cat(<<Lit("("), Rep(Cls(Digit), 2, 2), Lit(")"),
                            Cls(Space)>>),
                      Cat(<<Lit("("), Rep(Cls(Digit), 3, 3), Lit(")")>>) >>)),
           Opt(Cls({".", "-"})), Rep(Cls(Digit), 2, 5),
           Opt(Cls(Space \cup {".", "-"})), Rep(Cls(Digit), 2, 5),
           Opt(Cls(Space \cup {".", "-"})), Rep(Cls(Digit), 1, 9),
           Eol >>)

validate_phone_number(phone_number) == ReMatch(PhonePattern, phone_number)

----------------------------------------------------------------------------
(* validate_full_name                                                      *)

NameLenMin == 1
NameLenMax == 35

L1 == Plus(Cls(Letter))
W1 == Cls(Space)

(* The seven alternatives of the name pattern, in source order.            *)
NameAlternatives ==
    << Rep(Cat(<<L1, Opt(W1)>>), 1, 3),
       Cat(<<L1, Lit(","), W1, L1, Star(Cls(Space \cup Letter))>>),
       Cat(<<Cat(<<L1, W1>>), Cls(Letter), Lit("'"), L1,
             Opt(Cat(<<Lit("-"), L1>>))>>),
       Cat(<<Cls(Letter), Lit("'"), L1, Lit(","), W1, L1, W1, Cls(Upper),
             Lit(".")>>),
       Cat(<<L1, W1, Cls(Letter), Lit("."), W1, L1>>),
       Cat(<<L1, W1, Cls(Letter), Lit("."), W1, Cls(Upper), Lit("'"), L1>>),
       Cat(<<L1, Lit(","), W1, L1, W1, Cls(Upper), Lit(".")>>) >>

NameShape == Alt(NameAlternatives)

NamePattern ==
    Cat(<< Bol,
           Ahead(Cat(<<Rep(Dot, NameLenMin, NameLenMax), Eol>>)),
           NameShape,
           Eol >>)

validate_full_name(name) == ReMatch(NamePattern, name)

----------------------------------------------------------------------------
(* The stores, the requests in flight and the inputs.                      *)

(* Python's None in a column or an argument: no str is this sequence.      *)
None == <<"None">>

(* None as the result of Query.first().                                    *)
NoRow == [id |-> 0, full_name |-> None, phone_number |-> None]

(* Largest number of requests the model lets the clients send.             *)
MaxRequests == 4

(* Request workers: requests of different workers interleave.              *)
Slots == {1, 2}

(* full_name and phone_number values sent by clients: two well-formed ones *)
(* and a malformed one of each kind.                                       *)
FullNames == { <<"A","l">>, <<"B","o">>, <<"A","1">> }
PhoneNumbers == { <<"1","2","3","4","5">>,
                  <<"5","5","U+00A0","U+0665","5","-","5">>,
                  <<"1","2","3","4","5","6">> }

VARIABLES
    phonebook,   \* rows of table "phonebook": [id, full_name, phone_number]
    audit_log,   \* rows of table "audit_log" in id order: [action, ..];
                 \* row k has id k, the timestamp column is left out
    req,         \* per worker: the handler's arguments, locals and response
    received,    \* number of requests received so far
    v_name,      \* argument of a direct call of validate_full_name
    v_result     \* its result: "none" before the call, else TRUE or FALSE

vars == <<phonebook, audit_log, req, received, v_name, v_result>>

Idle ==
    [ op |-> "none", full_name |-> None, phone_number |-> None,
      pc |-> "idle", session |-> "none", opened |-> {},
      existing_number |-> NoRow, existing_person |-> NoRow, person |-> NoRow,
      status |-> 0, detail |-> "", body |-> {},
      pb0 |-> {}, log0 |-> 0 ]

(* The state after the module is imported: create_all has created both     *)
(* tables, empty, and no request has arrived.                              *)
Init ==
    /\ phonebook = {}
    /\ audit_log = << >>
    /\ req = [r \in Slots |-> Idle]
    /\ received = 0
    /\ v_name = << >>
    /\ v_result = "none"

----------------------------------------------------------------------------
(* Sessions, queries and commits.                                          *)

(* session = phonebook_Session() / auditLog_Session(): the local variable  *)
(* session is bound to a new session of that store.                        *)
OpenSession(l, store) ==
    [l EXCEPT !.session = store, !.opened = @ \cup {store}]

(* session.close(): closes the session the local variable is bound to.     *)
CloseSession(l) == [l EXCEPT !.opened = @ \ {l.session}]

(* raise HTTPException(status_code, detail)                                *)
HTTPException(l, status_code, detail) ==
    [l EXCEPT !.status = status_code, !.detail = detail, !.pc = "done"]

(* Query.first(): the matching row of lowest id (the order of a table     *)
(* scan), or None.                                                         *)
First(rows) ==
    IF rows = {} THEN NoRow
    ELSE CHOOSE p \in rows : \A q \in rows : p.id <= q.id

(* INTEGER PRIMARY KEY of a new row: one more than the largest id.         *)
NewId(rows) ==
    IF rows = {} THEN 1
    ELSE (CHOOSE p \in rows : \A q \in rows : p.id >= q.id).id + 1

(* InsertPerson over a table with UNIQUE columns: the insert is refused.   *)
InsertPerson_Unique(rows, full_name, phone_number) ==
    IF \E p \in rows : p.full_name = full_name
                         \/ p.phone_number = phone_number
    THEN rows
    ELSE rows \cup {[id |-> NewId(rows), full_name |-> full_name,
                     phone_number |-> phone_number]}

(* InsertPerson without the commit: the row is lost with the session.      *)
InsertPerson_NotCommitted(rows, full_name, phone_number) == rows

(* session.add(PhoneBook(..)); session.commit()                            *)
InsertPerson(rows, full_name, phone_number) ==
    rows \cup {[id |-> NewId(rows), full_name |-> full_name,
                phone_number |-> phone_number]}

(* DeletePerson without the commit: the row stays.                         *)
DeletePerson_NotCommitted(rows, person) == rows

(* session.delete(person); session.commit(): DELETE .. WHERE id = ?        *)
DeletePerson(rows, person) == {p \in rows : p.id # person.id}

(* AuditLog built without the phone_number argument.                       *)
AuditLog_DropNumber(action, full_name, phone_number) ==
    [action |-> action, full_name |-> full_name, phone_number |-> None]

(* AuditLog(action=.., full_name=.., phone_number=..)                      *)
AuditLog(action, full_name, phone_number) ==
    [action |-> action, full_name |-> full_name,
     phone_number |-> phone_number]

Active(r) == req[r].pc \notin {"idle", "done"}

(* A worker takes the next request when it is not running a handler.       *)
CanReceive(r) ==
    /\ ~Active(r)
    /\ received < MaxRequests

Receive(r, op, full_name, phone_number, pc) ==
    /\ CanReceive(r)
    /\ req' = [req EXCEPT ![r] =
                 [Idle EXCEPT !.op = op, !.full_name = full_name,
                              !.phone_number = phone_number, !.pc = pc,
                              !.pb0 = phonebook, !.log0 = Len(audit_log)]]
    /\ received' = received + 1
    /\ UNCHANGED <<phonebook, audit_log, v_name, v_result>>

Local(r, l) ==
    /\ req' = [req EXCEPT ![r] = l]
    /\ UNCHANGED <<phonebook, audit_log, received, v_name, v_result>>

InvalidInput == "Invalid input. Please check your response and try again."
NumberExists == "Phone number already exists in the database"
PersonExists == "Person already exists in the database"
NotFound == "Person not found in the database"
Added == "Person added successfully"
Deleted == "Person deleted successfully"

----------------------------------------------------------------------------
(* GET /PhoneBook/list                                                     *)

ListRequest(r) == Receive(r, "list", None, None, "list_open")

ListOpen(r) ==
    /\ req[r].pc = "list_open"
    /\ Local(r, [OpenSession(req[r], "pb") EXCEPT !.pc = "list_query"])

ListQuery(r) ==
    /\ req[r].pc = "list_query"
    /\ Local(r, [req[r] EXCEPT !.body = phonebook, !.pc = "list_audit_open"])

ListAuditOpen(r) ==
    /\ req[r].pc = "list_audit_open"
    /\ Local(r, [OpenSession(req[r], "log") EXCEPT !.pc = "list_audit_commit"])

ListAuditCommit(r) ==
    /\ req[r].pc = "list_audit_commit"
    /\ audit_log' = Append(audit_log, AuditLog("list", None, None))
    /\ req' = [req EXCEPT ![r].pc = "list_close"]
    /\ UNCHANGED <<phonebook, received, v_name, v_result>>

ListClose(r) ==
    /\ req[r].pc = "list_close"
    /\ Local(r, [CloseSession(req[r]) EXCEPT !.status = 200, !.pc = "done"])

----------------------------------------------------------------------------
(* POST /PhoneBook/add                                                     *)

AddRequest(r) ==
    \E full_name \in FullNames, phone_number \in PhoneNumbers :
        Receive(r, "add", full_name, phone_number, "add_open")

AddOpen(r) ==
    /\ req[r].pc = "add_open"
    /\ Local(r, [OpenSession(req[r], "pb") EXCEPT !.pc = "add_validate"])

(* The two format checks, in source order; both raise the same error.      *)
AddValidate(r) ==
    /\ req[r].pc = "add_validate"
    /\ IF ~validate_full_name(req[r].full_name)
       THEN Local(r, HTTPException(CloseSession(req[r]), 400, InvalidInput))
       ELSE IF ~validate_phone_number(req[r].phone_number)
       THEN Local(r, HTTPException(CloseSession(req[r]), 400, InvalidInput))
       ELSE Local(r, [req[r] EXCEPT !.pc = "add_query_number"])

(* session.query(PhoneBook).filter(PhoneBook.phone_number == ..).first()   *)
QueryByNumber(rows, phone_number) ==
    First({p \in rows : p.phone_number = phone_number})

(* QueryByName without the filter: the first row of the table.             *)
QueryByName_Unfiltered(rows, full_name) == First(rows)

(* session.query(PhoneBook).filter(PhoneBook.full_name == ..).first()      *)
QueryByName(rows, full_name) ==
    First({p \in rows : p.full_name = full_name})

AddQueryNumber(r) ==
    /\ req[r].pc = "add_query_number"
    /\ Local(r, [req[r] EXCEPT
                   !.existing_number = QueryByNumber(phonebook,
                                                     req[r].phone_number),
                   !.pc = "add_query_person"])

AddQueryPerson(r) ==
    /\ req[r].pc = "add_query_person"
    /\ Local(r, [req[r] EXCEPT
                   !.existing_person = QueryByName(phonebook,
                                                   req[r].full_name),
                   !.pc = "add_commit"])

(* AddConflict without the full_name check.                                *)
AddConflict_SkipPerson(existing_number, existing_person) ==
    IF existing_number # NoRow THEN NumberExists ELSE ""

(* AddConflict without the phone_number check.                             *)
AddConflict_SkipNumber(existing_number, existing_person) ==
    IF existing_person # NoRow THEN PersonExists ELSE ""

(* AddConflict with the two checks in the other order.                     *)
AddConflict_Swapped(existing_number, existing_person) ==
    IF existing_person # NoRow THEN PersonExists
    ELSE IF existing_number # NoRow THEN NumberExists
    ELSE ""

(* The two existence checks: the detail of the error raised, "" for none.  *)
AddConflict(existing_number, existing_person) ==
    IF existing_number # NoRow THEN NumberExists
    ELSE IF existing_person # NoRow THEN PersonExists
    ELSE ""

AddCommit(r) ==
    /\ req[r].pc = "add_commit"
    /\ LET conflict == AddConflict(req[r].existing_number,
                                   req[r].existing_person)
       IN IF conflict # ""
          THEN Local(r, HTTPException(CloseSession(req[r]), 400, conflict))
          ELSE /\ phonebook' = InsertPerson(phonebook, req[r].full_name,
                                            req[r].phone_number)
               /\ req' = [req EXCEPT ![r].pc = "add_close"]
               /\ UNCHANGED <<audit_log, received, v_name, v_result>>

AddClose(r) ==
    /\ req[r].pc = "add_close"
    /\ Local(r, [CloseSession(req[r]) EXCEPT !.pc = "add_audit_open"])

AddAuditOpen(r) ==
    /\ req[r].pc = "add_audit_open"
    /\ Local(r, [OpenSession(req[r], "log") EXCEPT !.pc = "add_audit_commit"])

AddAuditCommit(r) ==
    /\ req[r].pc = "add_audit_commit"
    /\ audit_log' = Append(audit_log, AuditLog("add", req[r].full_name,
                                               req[r].phone_number))
    /\ req' = [req EXCEPT ![r].pc = "add_return"]
    /\ UNCHANGED <<phonebook, received, v_name, v_result>>

AddReturn(r) ==
    /\ req[r].pc = "add_return"
    /\ Local(r, [CloseSession(req[r]) EXCEPT
                   !.status = 200, !.detail = Added, !.pc = "done"])

----------------------------------------------------------------------------
(* PUT /PhoneBook/deleteByName                                             *)

DeleteByNameRequest(r) ==
    \E full_name \in FullNames :
        Receive(r, "deleteByName", full_name, None, "dname_open")

DeleteByNameOpen(r) ==
    /\ req[r].pc = "dname_open"
    /\ Local(r, [OpenSession(req[r], "pb") EXCEPT !.pc = "dname_validate"])

DeleteByNameValidate(r) ==
    /\ req[r].pc = "dname_validate"
    /\ IF ~validate_full_name(req[r].full_name)
       THEN Local(r, HTTPException(CloseSession(req[r]), 400, InvalidInput))
       ELSE Local(r, [req[r] EXCEPT !.pc = "dname_query"])

DeleteByNameQuery(r) ==
    /\ req[r].pc = "dname_query"
    /\ Local(r, [req[r] EXCEPT
                   !.person = QueryByName(phonebook, req[r].full_name),
                   !.pc = "dname_commit"])

DeleteByNameCommit(r) ==
    /\ req[r].pc = "dname_commit"
    /\ IF req[r].person = NoRow
       THEN Local(r, HTTPException(CloseSession(req[r]), 404, NotFound))
       ELSE /\ phonebook' = DeletePerson(phonebook, req[r].person)
            /\ req' = [req EXCEPT ![r].pc = "dname_close"]
            /\ UNCHANGED <<audit_log, received, v_name, v_result>>

DeleteByNameClose(r) ==
    /\ req[r].pc = "dname_close"
    /\ Local(r, [CloseSession(req[r]) EXCEPT !.pc = "dname_audit_open"])

DeleteByNameAuditOpen(r) ==
    /\ req[r].pc = "dname_audit_open"
    /\ Local(r, [OpenSession(req[r], "log") EXCEPT
                   !.pc = "dname_audit_commit"])

DeleteByNameAuditCommit(r) ==
    /\ req[r].pc = "dname_audit_commit"
    /\ audit_log' = Append(audit_log,
                           AuditLog("delete-by-name", req[r].person.full_name,
                                    req[r].person.phone_number))
    /\ req' = [req EXCEPT ![r].pc = "dname_return"]
    /\ UNCHANGED <<phonebook, received, v_name, v_result>>

DeleteByNameReturn(r) ==
    /\ req[r].pc = "dname_return"
    /\ Local(r, [CloseSession(req[r]) EXCEPT
                   !.status = 200, !.detail = Deleted, !.pc = "done"])

----------------------------------------------------------------------------
(* PUT /PhoneBook/deleteByNumber                                           *)

DeleteByNumberRequest(r) ==
    \E phone_number \in PhoneNumbers :
        Receive(r, "deleteByNumber", None, phone_number, "dnum_open")

DeleteByNumberOpen(r) ==
    /\ req[r].pc = "dnum_open"
    /\ Local(r, [OpenSession(req[r], "pb") EXCEPT !.pc = "dnum_validate"])

DeleteByNumberValidate(r) ==
    /\ req[r].pc = "dnum_validate"
    /\ IF ~validate_phone_number(req[r].phone_number)
       THEN Local(r, HTTPException(CloseSession(req[r]), 400, InvalidInput))
       ELSE Local(r, [req[r] EXCEPT !.pc = "dnum_query"])

DeleteByNumberQuery(r) ==
    /\ req[r].pc = "dnum_query"
    /\ Local(r, [req[r] EXCEPT
                   !.person = QueryByNumber(phonebook, req[r].phone_number),
                   !.pc = "dnum_commit"])

DeleteByNumberCommit(r) ==
    /\ req[r].pc = "dnum_commit"
    /\ IF req[r].person = NoRow
       THEN Local(r, HTTPException(CloseSession(req[r]), 404, NotFound))
       ELSE /\ phonebook' = DeletePerson(phonebook, req[r].person)
            /\ req' = [req EXCEPT ![r].pc = "dnum_close"]
            /\ UNCHANGED <<audit_log, received, v_name, v_result>>

DeleteByNumberClose(r) ==
    /\ req[r].pc = "dnum_close"
    /\ Local(r, [CloseSession(req[r]) EXCEPT !.pc = "dnum_audit_open"])

DeleteByNumberAuditOpen(r) ==
    /\ req[r].pc = "dnum_audit_open"
    /\ Local(r, [OpenSession(req[r], "log") EXCEPT
                   !.pc = "dnum_audit_commit"])

DeleteByNumberAuditCommit(r) ==
    /\ req[r].pc = "dnum_audit_commit"
    /\ audit_log' = Append(audit_log,
                           AuditLog("delete-by-number",
                                    req[r].person.full_name,
                                    req[r].person.phone_number))
    /\ req' = [req EXCEPT ![r].pc = "dnum_return"]
    /\ UNCHANGED <<phonebook, received, v_name, v_result>>

DeleteByNumberReturn(r) ==
    /\ req[r].pc = "dnum_return"
    /\ Local(r, [CloseSession(req[r]) EXCEPT
                   !.status = 200, !.detail = Deleted, !.pc = "done"])

----------------------------------------------------------------------------
(* A handler that fails once its phonebook commit is done and before its   *)
(* audit_log commit is: the audit store raises, or the process stops.  No  *)
(* handler has a try/except/finally, so nothing more of it runs and the    *)
(* client gets a 500.                                                      *)

InternalError == "Internal Server Error"

Unhandled(l) == [l EXCEPT !.status = 500, !.detail = InternalError,
                          !.pc = "done"]

AddAuditFail(r) ==
    /\ req[r].pc \in {"add_close", "add_audit_open", "add_audit_commit"}
    /\ Local(r, Unhandled(req[r]))

DeleteByNameAuditFail(r) ==
    /\ req[r].pc \in {"dname_close", "dname_audit_open", "dname_audit_commit"}
    /\ Local(r, Unhandled(req[r]))

DeleteByNumberAuditFail(r) ==
    /\ req[r].pc \in {"dnum_close", "dnum_audit_open", "dnum_audit_commit"}
    /\ Local(r, Unhandled(req[r]))

ListAuditFail(r) ==
    /\ req[r].pc \in {"list_audit_open", "list_audit_commit"}
    /\ Local(r, Unhandled(req[r]))

----------------------------------------------------------------------------
(* Specifications.                                                         *)

(* Requests handled one at a time, no failure: one worker.                 *)
Next ==
    \/ ListRequest(1) \/ ListOpen(1) \/ ListQuery(1) \/ ListAuditOpen(1)
    \/ ListAuditCommit(1) \/ ListClose(1)
    \/ AddRequest(1) \/ AddOpen(1) \/ AddValidate(1) \/ AddQueryNumber(1)
    \/ AddQueryPerson(1) \/ AddCommit(1) \/ AddClose(1) \/ AddAuditOpen(1)
    \/ AddAuditCommit(1) \/ AddReturn(1)
    \/ DeleteByNameRequest(1) \/ DeleteByNameOpen(1)
    \/ DeleteByNameValidate(1) \/ DeleteByNameQuery(1)
    \/ DeleteByNameCommit(1) \/ DeleteByNameClose(1)
    \/ DeleteByNameAuditOpen(1) \/ DeleteByNameAuditCommit(1)
    \/ DeleteByNameReturn(1)
    \/ DeleteByNumberRequest(1) \/ DeleteByNumberOpen(1)
    \/ DeleteByNumberValidate(1) \/ DeleteByNumberQuery(1)
    \/ DeleteByNumberCommit(1) \/ DeleteByNumberClose(1)
    \/ DeleteByNumberAuditOpen(1) \/ DeleteByNumberAuditCommit(1)
    \/ DeleteByNumberReturn(1)

Spec == Init /\ [][Next]_vars

(* Requests handled one at a time, a handler may fail before its audit     *)
(* commit.                                                                 *)
NextFail ==
    \/ Next
    \/ AddAuditFail(1) \/ DeleteByNameAuditFail(1)
    \/ DeleteByNumberAuditFail(1) \/ ListAuditFail(1)

SpecFail == Init /\ [][NextFail]_vars

(* Two workers handling add requests; the handlers interleave at every     *)
(* store access.                                                           *)
NextConc ==
    \E r \in Slots :
        \/ AddRequest(r) \/ AddOpen(r) \/ AddValidate(r) \/ AddQueryNumber(r)
        \/ AddQueryPerson(r) \/ AddCommit(r) \/ AddClose(r) \/ AddAuditOpen(r)
        \/ AddAuditCommit(r) \/ AddReturn(r)

SpecConc == Init /\ [][NextConc]_vars

----------------------------------------------------------------------------
(* Direct calls of validate_full_name.                                     *)

(* Longest tail appended to a run of letters to make an argument.          *)
MaxTail == 2

TailChars == {"b", "Z", " ", "U+000B", ",", "'", "-", ".", "\n", "1"}

Tails == UNION {[1..k -> TailChars] : k \in 0..MaxTail}

(* A run of n letters; the runs are around both ends of the length limit.  *)
Run(n) == [i \in 1..n |-> "a"]
RunLens == {0, 1, NameLenMax - 2, NameLenMax - 1, NameLenMax, NameLenMax + 1}

(* One name of each shape the pattern lists on its own, with and without   *)
(* a final newline.                                                        *)
NameSamples ==
    { <<"J"," ","O","'","B","-","C">>, <<"J"," ","O","'","B","-","C","\n">>,
      <<"O","'","B",","," ","J"," ","F",".">>, <<"O","'","B",","," ","J"," ","F",".","\n">>,
      <<"J"," ","F","."," ","K">>, <<"J"," ","F","."," ","K","\n">>,
      <<"J"," ","F","."," ","O","'","B">>, <<"J"," ","F","."," ","O","'","B","\n">>,
      <<"S",","," ","J"," ","F",".">>, <<"S",","," ","J"," ","F",".","\n">>,
      <<"S",","," ","J">>, <<"S",","," ","J","\n">>,
      <<"A"," ","B"," ","C">>, <<"A"," ","B"," ","C","\n">>,
      <<"A"," ","B"," ","C"," ","D">>, <<"A"," ","B"," ","C"," ","D","\n">> }

NameInputs == NameSamples \cup {Run(n) \o t : n \in RunLens, t \in Tails}

InitNames ==
    /\ phonebook = {}
    /\ audit_log = << >>
    /\ req = [r \in Slots |-> Idle]
    /\ received = 0
    /\ v_name \in NameInputs
    /\ v_result = "none"

ValidateName ==
    /\ v_result = "none"
    /\ v_result' = IF validate_full_name(v_name) THEN "accepted"
                   ELSE "rejected"
    /\ UNCHANGED <<phonebook, audit_log, req, received, v_name>>

SpecNames == InitNames /\ [][ValidateName]_vars

----------------------------------------------------------------------------
(* Properties.  Worker 1 is the worker of the one-at-a-time               *)
(* specifications; pb0 and log0 of a request are the phonebook rows and    *)
(* the number of audit_log rows when the request arrived.                  *)

Done(r) == req[r].pc = "done"
Pair(p) == <<p.full_name, p.phone_number>>
Pairs(rows) == {Pair(p) : p \in rows}
NameStored(rows, full_name) == \E p \in rows : p.full_name = full_name
NumberStored(rows, phone_number) ==
    \E p \in rows : p.phone_number = phone_number
LastAudit == audit_log[Len(audit_log)]

(* The whole of s matches the pattern: a match that starts at the first    *)
(* character and ends after the last one.                                  *)
FullMatch(pattern, s) == (Len(s) + 1) \in Ends(pattern, s, 1)

(* C1: with requests handled one at a time, no two phonebook rows share a  *)
(* full_name and no two share a phone_number.                              *)
C1_Unique ==
    \A p, q \in phonebook :
        p.id # q.id => /\ p.full_name # q.full_name
                       /\ p.phone_number # q.phone_number

C1_Witness == Cardinality(phonebook) = 2 /\ Done(1) /\ req[1].op = "add"

(* C2: a request that returns success has appended exactly one audit_log   *)
(* row; the row has the request's action tag, for add the request's        *)
(* full_name and phone_number, and for a delete the stored full_name and   *)
(* phone_number of the one row the request deleted.                        *)
C2_OneAuditEntry ==
    (Done(1) /\ req[1].status = 200) =>
        /\ Len(audit_log) = req[1].log0 + 1
        /\ CASE req[1].op = "list" -> LastAudit.action = "list"
             [] req[1].op = "add" ->
                    LastAudit = [action |-> "add",
                                 full_name |-> req[1].full_name,
                                 phone_number |-> req[1].phone_number]
             [] req[1].op = "deleteByName" ->
                    \E p \in req[1].pb0 :
                        /\ p.full_name = req[1].full_name
                        /\ phonebook = req[1].pb0 \ {p}
                        /\ LastAudit = [action |-> "delete-by-name",
                                        full_name |-> p.full_name,
                                        phone_number |-> p.phone_number]
             [] req[1].op = "deleteByNumber" ->
                    \E p \in req[1].pb0 :
                        /\ p.phone_number = req[1].phone_number
                        /\ phonebook = req[1].pb0 \ {p}
                        /\ LastAudit = [action |-> "delete-by-number",
                                        full_name |-> p.full_name,
                                        phone_number |-> p.phone_number]

C2_Witness ==
    /\ Done(1) /\ req[1].status = 200 /\ req[1].op = "deleteByName"
    /\ Cardinality(req[1].pb0) = 2

(* C3: an add or delete that ends in 400 or 404 has appended no audit_log  *)
(* row and left the phonebook as it was; a delete whose key is well-formed *)
(* and matches no stored row ends in 404 "Person not found".               *)
C3_ErrorsLeaveNoTrace ==
    /\ (Done(1) /\ req[1].status \in {400, 404}) =>
           /\ Len(audit_log) = req[1].log0
           /\ phonebook = req[1].pb0
    /\ (/\ Done(1) /\ req[1].op = "deleteByName"
        /\ validate_full_name(req[1].full_name)
        /\ ~NameStored(req[1].pb0, req[1].full_name)) =>
           /\ req[1].status = 404 /\ req[1].detail = NotFound
           /\ Len(audit_log) = req[1].log0
    /\ (/\ Done(1) /\ req[1].op = "deleteByNumber"
        /\ validate_phone_number(req[1].phone_number)
        /\ ~NumberStored(req[1].pb0, req[1].phone_number)) =>
           /\ req[1].status = 404 /\ req[1].detail = NotFound
           /\ Len(audit_log) = req[1].log0

C3_Witness ==
    /\ Done(1) /\ req[1].op = "deleteByName" /\ req[1].status = 404
    /\ phonebook # {} /\ audit_log # << >>

(* C4: add answers with the error of the first failing check in the order  *)
(* full_name format, phone_number format, phone_number stored, full_name   *)
(* stored, and inserts the contact exactly when all four pass.             *)
C4_Expected(rows, full_name, phone_number) ==
    IF ~validate_full_name(full_name) THEN <<400, InvalidInput>>
    ELSE IF ~validate_phone_number(phone_number) THEN <<400, InvalidInput>>
    ELSE IF NumberStored(rows, phone_number) THEN <<400, NumberExists>>
    ELSE IF NameStored(rows, full_name) THEN <<400, PersonExists>>
    ELSE <<200, Added>>

C4_CheckOrder ==
    (Done(1) /\ req[1].op = "add") =>
        LET e == C4_Expected(req[1].pb0, req[1].full_name,
                             req[1].phone_number)
        IN /\ <<req[1].status, req[1].detail>> = e
           /\ IF e[1] = 200
              THEN /\ Cardinality(phonebook) = Cardinality(req[1].pb0) + 1
                   /\ Pairs(phonebook) =
                          Pairs(req[1].pb0) \cup
                              {<<req[1].full_name, req[1].phone_number>>}
              ELSE phonebook = req[1].pb0

C4_Witness ==
    /\ Done(1) /\ req[1].op = "add" /\ req[1].detail = NumberExists
    /\ NumberStored(req[1].pb0, req[1].phone_number)
    /\ NameStored(req[1].pb0, req[1].full_name)
    /\ <<req[1].full_name, req[1].phone_number>> \notin Pairs(req[1].pb0)

(* C5: while a contact is stored, an add with its phone_number (and a      *)
(* well-formed full_name) or with its full_name (and a well-formed         *)
(* phone_number) is answered 400 with a conflict message and leaves the    *)
(* phonebook as it was.                                                    *)
C5_AddRejectsRepeat ==
    (Done(1) /\ req[1].op = "add") =>
        /\ (/\ NumberStored(req[1].pb0, req[1].phone_number)
            /\ validate_full_name(req[1].full_name)) =>
               /\ req[1].status = 400
               /\ req[1].detail \in {NumberExists, PersonExists}
               /\ phonebook = req[1].pb0
        /\ (/\ NameStored(req[1].pb0, req[1].full_name)
            /\ validate_phone_number(req[1].phone_number)) =>
               /\ req[1].status = 400
               /\ req[1].detail \in {NumberExists, PersonExists}
               /\ phonebook = req[1].pb0

C5_Witness ==
    /\ Done(1) /\ req[1].op = "add" /\ req[1].status = 400
    /\ NumberStored(req[1].pb0, req[1].phone_number)
    /\ ~NameStored(req[1].pb0, req[1].full_name)
    /\ validate_full_name(req[1].full_name)

(* C6: validate_full_name accepts a string only if its length is between   *)
(* 1 and 35 and the whole string has one of the listed shapes, and rejects *)
(* every other string.                                                     *)
C6_AcceptedNames ==
    v_result # "none" =>
        (v_result = "accepted" <=>
            /\ Len(v_name) \in NameLenMin..NameLenMax
            /\ FullMatch(NameShape, v_name))

(* C7: when a handler has returned, every session it opened is closed.     *)
C7_SessionsClosed == Done(1) => req[1].opened = {}

(* C8: two interleaved add requests with the same full_name or the same    *)
(* phone_number can both pass the existence checks and both insert: once   *)
(* both have committed, two rows share that full_name or phone_number.     *)
Inserted(r) ==
    /\ req[r].op = "add"
    /\ \/ req[r].pc \in {"add_close", "add_audit_open", "add_audit_commit",
                         "add_return"}
       \/ Done(r) /\ req[r].status = 200

C8_BothInsert ==
    \A r1, r2 \in Slots :
        (r1 # r2 /\ Inserted(r1) /\ Inserted(r2)) =>
            /\ req[r1].full_name = req[r2].full_name =>
                   \E p, q \in phonebook :
                       /\ p.id # q.id
                       /\ p.full_name = req[r1].full_name
                       /\ q.full_name = req[r1].full_name
            /\ req[r1].phone_number = req[r2].phone_number =>
                   \E p, q \in phonebook :
                       /\ p.id # q.id
                       /\ p.phone_number = req[r1].phone_number
                       /\ q.phone_number = req[r1].phone_number

C8_Witness ==
    /\ \A r \in Slots : Done(r) /\ req[r].op = "add" /\ req[r].status = 200
                        /\ req[r].existing_number = NoRow
                        /\ req[r].existing_person = NoRow
    /\ \E p, q \in phonebook :
           /\ p.id # q.id
           /\ p.full_name = q.full_name \/ p.phone_number = q.phone_number

(* C9: the phonebook commit comes before the audit write: until the audit  *)
(* row is written the change is already in the phonebook; and a handler    *)
(* that fails after its phonebook commit leaves the change in the          *)
(* phonebook and no audit row for it.                                      *)
C9_Changed(r) ==
    CASE req[r].op = "add" ->
             \E p \in phonebook \ req[r].pb0 :
                 /\ Pair(p) = <<req[r].full_name, req[r].phone_number>>
                 /\ phonebook = req[r].pb0 \cup {p}
      [] req[r].op \in {"deleteByName", "deleteByNumber"} ->
             /\ req[r].person \in req[r].pb0
             /\ phonebook = req[r].pb0 \ {req[r].person}
      [] OTHER -> phonebook = req[r].pb0

C9_NotAtomic ==
    /\ req[1].pc \in {"add_close", "add_audit_open", "add_audit_commit",
                      "dname_close", "dname_audit_open", "dname_audit_commit",
                      "dnum_close", "dnum_audit_open", "dnum_audit_commit"}
           => C9_Changed(1) /\ Len(audit_log) = req[1].log0
    /\ (Done(1) /\ req[1].status = 500)
           => C9_Changed(1) /\ Len(audit_log) = req[1].log0

C9_Witness ==
    /\ Done(1) /\ req[1].status = 500 /\ req[1].op = "add"
    /\ NameStored(phonebook, req[1].full_name)
    /\ req[1].log0 > 0

(* C10: with requests handled one at a time and no failure, between        *)
(* requests the (full_name, phone_number) pairs of the phonebook are those *)
(* obtained by replaying the audit_log in order, and list returns them.    *)
RECURSIVE Replay(_, _)
Replay(log, k) ==
    IF k = 0 THEN {}
    ELSE LET e == log[k]
             before == Replay(log, k - 1)
         IN CASE e.action = "add" ->
                     before \cup {<<e.full_name, e.phone_number>>}
              [] e.action \in {"delete-by-name", "delete-by-number"} ->
                     before \ {<<e.full_name, e.phone_number>>}
              [] OTHER -> before

C10_AuditReplay ==
    /\ ~Active(1) => Pairs(phonebook) = Replay(audit_log, Len(audit_log))
    /\ (Done(1) /\ req[1].op = "list" /\ req[1].status = 200) =>
           Pairs(req[1].body) = Replay(audit_log, Len(audit_log))

C10_Witness ==
    /\ Done(1) /\ req[1].op = "list" /\ req[1].body # {}
    /\ \E k \in DOMAIN audit_log :
           audit_log[k].action \in {"delete-by-name", "delete-by-number"}

====
